---- MODULE Spec2Model ----
(***************************************************************************)
(* Dynamic Quote Generator with server sync and conflict handling.         *)
(*                                                                         *)
(* The state machine of the sync engine of src/unnamed/part_000 (lines     *)
(* 260-978): the in-memory list `quotes`, the "quotes" key of              *)
(* localStorage, the list `pendingConflicts`, the in-memory                *)
(* `simulatedServer.store`, and the asynchronous handlers (syncWithServer, *)
(* the add-quote submit handler, the import handler, the buttons of the    *)
(* conflict panel), each cut at its awaits.  Quote objects live in a heap  *)
(* because the JavaScript handlers share them by reference.                *)
(* SpecLocalWins is the same script with SERVER_WINS_BY_DEFAULT set to     *)
(* false, SpecOnline the script while the remote answers every request.    *)
(* SpecV1 is the earlier revision of the script, src/unnamed/part_001,     *)
(* whose syncQuotes merges without a Map.                                  *)
(***************************************************************************)
EXTENDS Integers, Sequences, FiniteSets, TLC

VARIABLES
    config,            \* the constants of the script that a deployment may set
    quotes,            \* let quotes: sequence of references to quote objects
    heap,              \* the quote objects: reference -> record
    localStorage,      \* localStorage["quotes"], as the list JSON.parse returns
    pendingConflicts,  \* let pendingConflicts: sequence of {id, local, server}
    store,             \* simulatedServer.store
    pass,              \* the invocations of syncWithServer in flight
    addTasks,          \* the add-quote submit handlers awaiting their post
    keepTasks,         \* the click handlers of the conflict panel awaiting their post
    quoteDisplay,      \* what quoteDisplay.innerHTML shows (a tag)
    clock,             \* the wall clock read by nowISO() and Date.now()
    uidCount,          \* how many ids uid() has generated
    imports,           \* how many files were imported
    resolves,          \* how many buttons of the conflict panel were clicked
    overlaps,          \* how many times a pass started while another was in flight
    lastSync,          \* history: the latest pass committed since the last local edit
    last               \* history: what the step just taken did (NoEvent for most steps)

vars == <<config, quotes, heap, localStorage, pendingConflicts, store, pass, addTasks,
          keepTasks, quoteDisplay, clock, uidCount, imports, resolves, overlaps, lastSync, last>>

----------------------------------------------------------------------------
\* Bounds of the model.

MaxTime == 2       \* the clock stops advancing here
MaxUid == 1        \* ids uid() may generate
MaxObj == 5        \* quote objects alive at once
MaxImports == 1    \* files imported
MaxResolves == 1   \* clicks on the buttons of the conflict panel
MaxOverlaps == 1   \* passes started while another pass was in flight
MaxTasks == 2      \* asynchronous handlers (passes, click handlers) in flight at once
MaxEvents == 2     \* submits, imports, panel clicks and overlapping starts in a session

MaxPasses == 2     \* invocations of syncWithServer that may overlap

Passes == 1..MaxPasses

\* what the session has used of MaxEvents
Spent == uidCount + imports + resolves + overlaps

----------------------------------------------------------------------------
\* Values.

\* lastModified: a positive number is a valid timestamp, Missing is a falsy
\* value (absent field), BadDate a string that new Date() cannot parse.
Missing == 0
BadDate == -1
NaN == -1

\* the opposite setting of SERVER_WINS_BY_DEFAULT: conflicts keep the local copy
LOCAL_WINS_BY_DEFAULT == FALSE

SERVER_WINS_BY_DEFAULT == config.SERVER_WINS_BY_DEFAULT

\* ids: "1", "2" are strings, "#1" is the number 1; uid() returns a fresh
\* token at each call: "d<n>" while the page loads, "u<n>" afterwards.
UidNames == <<"u1", "u2", "u3", "u4">>
LoadUidNames == <<"d1", "d2", "d3">>

\* String(id)
String(id) == IF id = "#1" THEN "1" ELSE IF id = "#2" THEN "2" ELSE id

\* new Date(lastModified).getTime()
getTime(lm) == IF lm = BadDate \/ lm = Missing THEN NaN ELSE lm

\* a !== b on numbers, where NaN differs from every number, itself included
StrictNotEqual(a, b) == a = NaN \/ b = NaN \/ a # b

nowISO == clock

\* the n-th id uid() returns after `count` ids were generated
uid(count, n) == UidNames[count + n]

\* x || y for strings: "" is falsy
Or(x, y) == IF x = "" THEN y ELSE x

\* lastModified || nowISO(): a missing lastModified is falsy
OrNow(lm) == IF lm = Missing THEN clock ELSE lm

\* q.pendingSync || false: a stored object without the field yields false
OrFalse(q) == IF "pendingSync" \in DOMAIN q THEN q.pendingSync ELSE FALSE

Range(s) == {s[i] : i \in 1..Len(s)}

----------------------------------------------------------------------------
\* Records.  A quote is {id, text, category, lastModified, pendingSync}; a
\* server item is {id, text, category, lastModified}.  In data read from
\* outside (localStorage, an imported file) a missing field is its falsy
\* value: "" for id, text and category, Missing for lastModified, FALSE for
\* pendingSync.

Quote(id, text, category, lastModified, pendingSync) ==
    [id |-> id, text |-> text, category |-> category,
     lastModified |-> lastModified, pendingSync |-> pendingSync]

ServerItem(q) ==
    [id |-> q.id, text |-> q.text, category |-> q.category,
     lastModified |-> q.lastModified]

\* how many of s[1..i] have no id, i.e. how many uid() calls the map has made
MissingIds(s, i) == Cardinality({j \in 1..i : s[j].id = ""})

\* quotes.map(q => ({id: q.id || uid(), text: q.text || "", category:
\* q.category || "Uncategorized", lastModified: q.lastModified || nowISO(),
\* pendingSync: q.pendingSync || false}))
normalizeStored(s) ==
    [i \in 1..Len(s) |->
        Quote(IF s[i].id = "" THEN LoadUidNames[MissingIds(s, i)] ELSE s[i].id,
              Or(s[i].text, ""),
              Or(s[i].category, "Uncategorized"),
              OrNow(s[i].lastModified),
              OrFalse(s[i]))]

\* the three default quotes
defaultQuotes ==
    << Quote(LoadUidNames[1], "The best way", "Motivation", nowISO, FALSE),
       Quote(LoadUidNames[2], "In the middle", "Inspiration", nowISO, FALSE),
       Quote(LoadUidNames[3], "Strive not", "Wisdom", nowISO, FALSE) >>

\* loadQuotesFromLocalStorage: the value of localStorage.getItem("quotes") is
\* absent, a JSON array, or text that JSON.parse or the map rejects.  Returns
\* the records of `quotes` and what localStorage holds afterwards.
loadQuotesFromLocalStorage(stored) ==
    IF stored.kind = "array"
    THEN [quotes |-> normalizeStored(stored.value), saved |-> stored.value]
    ELSE [quotes |-> defaultQuotes, saved |-> defaultQuotes]

\* simulatedServer.initFromLocal(localQuotes)
initFromLocal(st, localQuotes) ==
    IF Len(st) = 0
    THEN [i \in 1..Len(localQuotes) |-> ServerItem(localQuotes[i])]
    ELSE st

----------------------------------------------------------------------------
\* The heap of quote objects.

\* the records of a list of references
Deref(h, refs) == [i \in 1..Len(refs) |-> h[refs[i]]]

\* The references the handlers hold, each once, in the order: quotes, the
\* merged list of each pass, the new quote of each add handler.
RECURSIVE Dedup(_)
Dedup(refs) ==
    IF Len(refs) = 0 THEN <<>>
    ELSE LET front == Dedup(SubSeq(refs, 1, Len(refs) - 1))
             final == refs[Len(refs)]
         IN IF final \in Range(front) THEN front ELSE Append(front, final)

RECURSIVE MergedOf(_, _)
MergedOf(ps, p) ==
    IF p > MaxPasses THEN <<>> ELSE ps[p].merged \o MergedOf(ps, p + 1)

Held(q, ps, ad, kt) ==
    Dedup(q \o MergedOf(ps, 1) \o ad \o [i \in 1..Len(kt) |-> kt[i].ref])

IndexOf(s, x) == CHOOSE i \in 1..Len(s) : s[i] = x

\* The next values of the five variables that hold references.  Objects are
\* renumbered in the order of Held, which drops the ones no handler can reach
\* and makes the numbering independent of the allocation history.
SetRefs(q, h, ps, ad, kt) ==
    \E held \in {Held(q, ps, ad, kt)} :
    LET to(refs) == [i \in 1..Len(refs) |-> IndexOf(held, refs[i])]
    IN /\ Len(held) <= MaxObj
       /\ quotes' = to(q)
       /\ heap' = [i \in 1..Len(held) |-> h[held[i]]]
       /\ pass' = [p \in Passes |-> [ps[p] EXCEPT !.merged = to(@), !.toPost = to(@)]]
       /\ addTasks' = to(ad)
       /\ keepTasks' = [i \in 1..Len(kt) |-> [kt[i] EXCEPT !.ref = IndexOf(held, @)]]

\* the record list of the Record Store
Records == Deref(heap, quotes)

\* saveQuotesToLocalStorage: JSON.stringify(quotes)
saveQuotesToLocalStorage(h, q) == Deref(h, q)

----------------------------------------------------------------------------
\* Inputs.

\* what localStorage may hold when the page loads
StoredOptions ==
    { [kind |-> "array",
       value |-> << Quote("1", "X", "M", 1, TRUE), Quote("2", "Y", "M", 1, TRUE) >>],
      [kind |-> "array",
       value |-> << [id |-> "1", text |-> "Y", category |-> "",
                     lastModified |-> BadDate],
                    [id |-> "", text |-> "W", category |-> "M",
                     lastModified |-> Missing, pendingSync |-> TRUE] >>],
      [kind |-> "array", value |-> <<>>] }

IdlePass ==
    [pc |-> "idle", via |-> "none", serverQuotes |-> <<>>, before |-> <<>>,
     merged |-> <<>>, conflicts |-> <<>>, added |-> 0, toPost |-> <<>>, idx |-> 0]

NoEvent == [op |-> "none"]

NoSync == [op |-> "none"]

\* initSyncing: load, seed the simulated server, first syncWithServer() call;
\* serverWins is the value the script gives SERVER_WINS_BY_DEFAULT
InitConfigured(serverWins) ==
    \E stored \in StoredOptions :
        LET loaded == loadQuotesFromLocalStorage(stored)
            n == Len(loaded.quotes)
        IN /\ config = [SERVER_WINS_BY_DEFAULT |-> serverWins]
           /\ clock = 1
           /\ quotes = [i \in 1..n |-> i]
           /\ heap = [i \in 1..n |-> loaded.quotes[i]]
           /\ localStorage = loaded.saved
           /\ uidCount = 0
           /\ imports = 0
           /\ resolves = 0
           /\ overlaps = 0
           /\ last = [op |-> "load", stored |-> stored]
           /\ lastSync = NoSync
           /\ store = initFromLocal(<<>>, loaded.quotes)
           /\ pendingConflicts = <<>>
           /\ pass = [p \in Passes |-> IF p = 1 THEN [IdlePass EXCEPT !.pc = "fetch", !.via = "http"]
                                                  ELSE IdlePass]
           /\ addTasks = <<>>
           /\ keepTasks = <<>>
           /\ quoteDisplay = IF n = 0 THEN "empty" ELSE "quote"

\* the script as published: const SERVER_WINS_BY_DEFAULT = true
Init == InitConfigured(TRUE)

\* the script with the policy set to local wins
InitLocalWins == InitConfigured(FALSE)

----------------------------------------------------------------------------
\* A JavaScript Map: a sequence of [k, v] in insertion order, keys unique.

MapHas(m, k) == \E i \in 1..Len(m) : m[i].k = k

MapGet(m, k) == m[CHOOSE i \in 1..Len(m) : m[i].k = k].v

\* Map.prototype.set: an existing key keeps its position
MapSet(m, k, v) ==
    IF MapHas(m, k)
    THEN [i \in 1..Len(m) |-> IF m[i].k = k THEN [k |-> k, v |-> v] ELSE m[i]]
    ELSE Append(m, [k |-> k, v |-> v])

\* new Map(entries)
RECURSIVE MapOf(_)
MapOf(entries) ==
    IF Len(entries) = 0 THEN <<>>
    ELSE LET n == Len(entries)
         IN MapSet(MapOf(SubSeq(entries, 1, n - 1)), entries[n].k, entries[n].v)

\* Array.from(map.values())
MapValues(m) == [i \in 1..Len(m) |-> m[i].v]

----------------------------------------------------------------------------
\* The remote source.

\* what GET SERVER_URL may answer: arrays of {id, body, userId}
RemoteResponses ==
    { << [id |-> "#1", body |-> "Y", userId |-> "1"],
         [id |-> "#2", body |-> "Y", userId |-> "1"] >> }

\* fetchServerQuotes, fetch succeeded: data.map(item => ({id: String(item.id),
\* text: item.body, category: `User-${item.userId}`, lastModified: nowISO()}))
mapResponse(data) ==
    [i \in 1..Len(data) |->
        [id |-> String(data[i].id), text |-> data[i].body,
         category |-> "User-" \o data[i].userId, lastModified |-> nowISO]]

\* simulatedServer.postQuote(q): update the item with q's id, or append one
postQuote(st, q) ==
    IF \E i \in 1..Len(st) : st[i].id = q.id
    THEN LET idx == CHOOSE i \in 1..Len(st) :
                        st[i].id = q.id /\ \A j \in 1..(i - 1) : st[j].id # q.id
         IN [st EXCEPT ![idx] = ServerItem(q)]
    ELSE Append(st, ServerItem(q))

----------------------------------------------------------------------------
\* syncWithServer, from the fetched list to the list of quotes to post.

\* a reference not in use
Alloc(h) == Len(h) + 1

\* a variant of isConflict that reports a conflict only when the server copy
\* is the newer one (localLM < serverLM, false when either is NaN)
isConflictNewerOnly(localItem, serverItem) ==
    /\ getTime(localItem.lastModified) # NaN
    /\ getTime(serverItem.lastModified) # NaN
    /\ getTime(localItem.lastModified) < getTime(serverItem.lastModified)
    /\ localItem.text # serverItem.text

\* localLM !== serverLM && localItem.text !== serverItem.text
isConflict(localItem, serverItem) ==
    /\ StrictNotEqual(getTime(localItem.lastModified),
                      IF serverItem.lastModified = Missing THEN clock
                      ELSE getTime(serverItem.lastModified))
    /\ localItem.text # serverItem.text

\* a variant of fromServer that marks the quote as still to be pushed
fromServerPending(sid, serverItem) ==
    Quote(sid, serverItem.text, serverItem.category,
          OrNow(serverItem.lastModified), TRUE)

\* the local quote built from a server item (a new one, or the winner of a
\* conflict)
fromServer(sid, serverItem) ==
    Quote(sid, serverItem.text, serverItem.category,
          OrNow(serverItem.lastModified), FALSE)

\* the conflict entry {id, local, server}
conflictEntry(sid, localItem, serverItem) ==
    [id |-> sid, local |-> localItem,
     server |-> [id |-> sid, text |-> serverItem.text,
                 category |-> serverItem.category,
                 lastModified |-> OrNow(serverItem.lastModified)]]

\* "1) Merge server items into local": the loop over serverMap from entry i
\* on.  st holds the heap, localMap (key -> reference), newLocal (references)
\* and conflicts.
RECURSIVE mergeLoop(_, _, _)
mergeLoop(serverMap, i, st) ==
    IF i > Len(serverMap) THEN st
    ELSE LET sid == serverMap[i].k
             serverItem == serverMap[i].v
             o == Alloc(st.heap)
         IN IF ~MapHas(st.localMap, sid)
            THEN mergeLoop(serverMap, i + 1,
                    [st EXCEPT !.heap = Append(@, fromServer(String(serverItem.id), serverItem)),
                               !.newLocal = Append(@, o)])
            ELSE LET localItem == st.heap[MapGet(st.localMap, sid)]
                 IN IF isConflict(localItem, serverItem)
                    THEN mergeLoop(serverMap, i + 1,
                            [st EXCEPT
                               !.conflicts = Append(@, conflictEntry(sid, localItem, serverItem)),
                               !.heap = IF SERVER_WINS_BY_DEFAULT
                                        THEN Append(@, fromServer(sid, serverItem))
                                        ELSE @,
                               !.localMap = IF SERVER_WINS_BY_DEFAULT
                                            THEN MapSet(@, sid, o)
                                            ELSE @])
                    ELSE mergeLoop(serverMap, i + 1, st)

\* "2) Add server-only items": localMap.set(String(item.id), item)
RECURSIVE addNewLocal(_, _, _)
addNewLocal(localMap, h, newLocal) ==
    IF Len(newLocal) = 0 THEN localMap
    ELSE addNewLocal(MapSet(localMap, String(h[Head(newLocal)].id), Head(newLocal)),
                     h, Tail(newLocal))

\* a variant of pendingToPost that takes the pending quotes only
pendingToPostPendingOnly(h, merged, serverMap) ==
    SelectSeq(merged, LAMBDA o : h[o].pendingSync = TRUE)

\* merged.filter(l => l.pendingSync === true || !serverMap.has(String(l.id)))
pendingToPost(h, merged, serverMap) ==
    SelectSeq(merged, LAMBDA o : h[o].pendingSync = TRUE
                                 \/ ~MapHas(serverMap, String(h[o].id)))

\* syncWithServer from "Build index maps" to the start of the post loop
merge(h, q, serverQuotes) ==
    LET localMap == MapOf([i \in 1..Len(q) |-> [k |-> String(h[q[i]].id), v |-> q[i]]])
        serverMap == MapOf([i \in 1..Len(serverQuotes) |->
                              [k |-> String(serverQuotes[i].id), v |-> serverQuotes[i]]])
        st == mergeLoop(serverMap, 1,
                        [heap |-> h, localMap |-> localMap, newLocal |-> <<>>,
                         conflicts |-> <<>>])
        merged == MapValues(addNewLocal(st.localMap, st.heap, st.newLocal))
    IN [heap |-> st.heap, merged |-> merged, conflicts |-> st.conflicts,
        newLocal |-> st.newLocal,
        toPost |-> pendingToPost(st.heap, merged, serverMap)]

\* a variant of syncNotice that counts every merged quote as new
syncNoticeOfMerged(conflicts, added, merged) ==
    IF Len(conflicts) > 0 THEN [kind |-> "conflicts", count |-> Len(conflicts)]
    ELSE IF Len(merged) > 0 THEN [kind |-> "synced", count |-> Len(merged)]
    ELSE [kind |-> "none", count |-> 0]

\* "3) Handle conflicts": what the pass tells the user through notifyUser,
\* the number of conflicts or else the number of quotes taken from the server
\* (added is newLocal.length)
syncNotice(conflicts, added, merged) ==
    IF Len(conflicts) > 0 THEN [kind |-> "conflicts", count |-> Len(conflicts)]
    ELSE IF added > 0 THEN [kind |-> "synced", count |-> added]
    ELSE [kind |-> "none", count |-> 0]

\* filterQuotes("All") as run at the end of a pass
filterQuotes(q) == IF Len(q) = 0 THEN "empty" ELSE "quote"

\* The pass goes on after a step: ps is its record, h the heap and st the
\* simulated store the step leaves, failedId the id of the quote whose POST
\* failed in the step ("" if none did).  While a quote is left to post, the
\* next post is sent; otherwise "Save merged data" and "Handle conflicts" run.
Continue(p, ps, h, st, failedId) ==
    IF ps.idx <= Len(ps.toPost)
    THEN /\ SetRefs(quotes, h, [pass EXCEPT ![p] = [ps EXCEPT !.pc = "post"]], addTasks,
                 keepTasks)
         /\ store' = st
         /\ UNCHANGED config
         /\ last' = NoEvent
         /\ UNCHANGED <<localStorage, pendingConflicts, quoteDisplay, clock, uidCount,
                        imports, resolves, overlaps, lastSync>>
    ELSE /\ SetRefs(ps.merged, h, [pass EXCEPT ![p] = IdlePass], addTasks, keepTasks)
         /\ localStorage' = saveQuotesToLocalStorage(h, ps.merged)
         /\ pendingConflicts' = IF Len(ps.conflicts) > 0 THEN ps.conflicts
                                ELSE pendingConflicts
         /\ quoteDisplay' = filterQuotes(ps.merged)
         /\ store' = st
         /\ UNCHANGED config
         /\ last' = [op |-> "sync", via |-> ps.via, serverQuotes |-> ps.serverQuotes,
                     before |-> ps.before, conflicts |-> ps.conflicts,
                     added |-> ps.added, posted |-> Deref(h, ps.toPost),
                     failedId |-> failedId, registry |-> pendingConflicts,
                     notice |-> syncNotice(ps.conflicts, ps.added, ps.merged),
                     stored |-> localStorage, previous |-> lastSync]
         /\ lastSync' = [op |-> "sync", serverQuotes |-> ps.serverQuotes,
                         after |-> Deref(h, ps.merged)]
         /\ UNCHANGED <<clock, uidCount, imports, resolves, overlaps>>

\* the continuation of syncWithServer once serverQuotes has arrived
Reconcile(p, serverQuotes, st) ==
    LET m == merge(heap, quotes, serverQuotes)
    IN Continue(p,
                [pass[p] EXCEPT !.pc = "post", !.serverQuotes = serverQuotes,
                                !.before = Records, !.merged = m.merged,
                                !.conflicts = m.conflicts, !.added = Len(m.newLocal),
                                !.toPost = m.toPost, !.idx = 1],
                m.heap, st, "")

\* the asynchronous handlers in flight
InFlight ==
    Cardinality({r \in Passes : pass[r].pc # "idle"}) + Len(addTasks) + Len(keepTasks)

\* setInterval(syncWithServer, SYNC_INTERVAL_MS) fires, an interval after the
\* call before: fetch(SERVER_URL) is sent
SyncStart(p) ==
    /\ pass[p].pc = "idle"
    /\ \A r \in Passes : pass[r].pc = "idle" => r >= p
    /\ InFlight < MaxTasks
    /\ clock' = IF clock < MaxTime THEN clock + 1 ELSE clock
    /\ pass' = [pass EXCEPT ![p] = [IdlePass EXCEPT !.pc = "fetch", !.via = "http"]]
    /\ IF \E r \in Passes : pass[r].pc # "idle"
       THEN overlaps < MaxOverlaps /\ Spent < MaxEvents /\ overlaps' = overlaps + 1
       ELSE overlaps' = overlaps
    /\ UNCHANGED config
    /\ last' = NoEvent
    /\ UNCHANGED <<quotes, heap, localStorage, pendingConflicts, store,
                   addTasks, keepTasks, quoteDisplay, uidCount, imports, resolves, lastSync>>

\* the fetch answers 200 with a JSON array
FetchOk(p) ==
    /\ pass[p].pc = "fetch"
    /\ \E data \in RemoteResponses : Reconcile(p, mapResponse(data), store)

\* the fetch fails: fall back to the simulated server, seeded if empty
FetchFail(p) ==
    /\ pass[p].pc = "fetch"
    /\ store' = initFromLocal(store, Records)
    /\ pass' = [pass EXCEPT ![p].pc = "simfetch", ![p].via = "sim"]
    /\ UNCHANGED config
    /\ last' = NoEvent
    /\ UNCHANGED <<quotes, heap, localStorage, pendingConflicts, addTasks, keepTasks,
                   quoteDisplay, clock, uidCount, imports, resolves, overlaps, lastSync>>

\* simulatedServer.fetchQuotes returns deepClone(this.store)
SimFetchDone(p) ==
    /\ pass[p].pc = "simfetch"
    /\ Reconcile(p, store, store)

\* postQuoteToServer(lq): the POST answers 2xx
PostOk(p) ==
    /\ pass[p].pc = "post"
    /\ LET lq == pass[p].toPost[pass[p].idx]
       IN Continue(p, [pass[p] EXCEPT !.idx = @ + 1],
                   [heap EXCEPT ![lq].pendingSync = FALSE], store, "")

\* postQuoteToServer(lq): the POST fails and the fallback
\* simulatedServer.postQuote(lq) returns, so postResult.ok is true.  (The
\* failed POST itself reads and writes nothing.)
PostViaSim(p) ==
    /\ pass[p].pc = "post"
    /\ LET lq == pass[p].toPost[pass[p].idx]
       IN Continue(p, [pass[p] EXCEPT !.idx = @ + 1],
                   [heap EXCEPT ![lq].pendingSync = FALSE],
                   postQuote(store, heap[lq]), heap[lq].id)

----------------------------------------------------------------------------
\* The add-quote form.

\* what the user may type, trimmed
AddTexts == {"", "Z"}
AddCategories == {"M"}

\* the submit handler up to its await: the new quote is pushed, saved and
\* posted; nothing happens when a field is empty
Submit ==
    \E text \in AddTexts, category \in AddCategories :
        IF text # "" /\ category # ""
        THEN LET newQ == Alloc(heap)
                 h == Append(heap, Quote(uid(uidCount, 1), text, category, nowISO, TRUE))
             IN /\ uidCount < MaxUid
                /\ Spent < MaxEvents
                /\ InFlight < MaxTasks
                /\ SetRefs(Append(quotes, newQ), h, pass, Append(addTasks, newQ),
                           keepTasks)
                /\ uidCount' = uidCount + 1
                /\ localStorage' = saveQuotesToLocalStorage(h, Append(quotes, newQ))
                /\ quoteDisplay' = "added"
                /\ UNCHANGED config
                /\ last' = NoEvent
                /\ lastSync' = NoSync
                /\ UNCHANGED <<pendingConflicts, store, clock, imports, resolves, overlaps>>
        ELSE UNCHANGED vars

\* the rest of the submit handler of addTasks[t] once postQuoteToServer(newQ)
\* has returned ok; st is the simulated store the post leaves, http tells
\* whether the POST itself was answered 2xx
AfterAddPost(t, st, http) ==
    LET h == [heap EXCEPT ![addTasks[t]].pendingSync = FALSE]
    IN /\ SetRefs(quotes, h, pass,
                  SubSeq(addTasks, 1, t - 1) \o SubSeq(addTasks, t + 1, Len(addTasks)),
                  keepTasks)
       /\ localStorage' = saveQuotesToLocalStorage(h, quotes)
       /\ store' = st
       /\ UNCHANGED config
       /\ last' = [op |-> "addPost", id |-> heap[addTasks[t]].id, http |-> http]
       /\ lastSync' = NoSync
       /\ UNCHANGED <<pendingConflicts, quoteDisplay, clock, uidCount, imports, resolves, overlaps>>

\* the POST of the new quote answers 2xx
AddPostOk ==
    \E t \in 1..Len(addTasks) : AfterAddPost(t, store, TRUE)

\* the POST fails and simulatedServer.postQuote(newQ) returns
AddPostViaSim ==
    \E t \in 1..Len(addTasks) : AfterAddPost(t, postQuote(store, heap[addTasks[t]]), FALSE)

----------------------------------------------------------------------------
\* The conflict panel.  showConflictPanel runs whenever pendingConflicts is
\* assigned, so the panel offers one block of buttons per entry of
\* pendingConflicts.

\* quotes.findIndex(q => String(q.id) === String(id)): 0 when there is none
findIndex(h, q, id) ==
    IF \E i \in 1..Len(q) : String(h[q[i]].id) = String(id)
    THEN CHOOSE i \in 1..Len(q) :
            /\ String(h[q[i]].id) = String(id)
            /\ \A j \in 1..(i - 1) : String(h[q[j]].id) # String(id)
    ELSE 0

\* pendingConflicts.filter(pc => pc.id !== conf.id)
withoutConflict(list, id) == SelectSeq(list, LAMBDA pc : pc.id # id)

\* keepServerBtn.onclick of the block of pendingConflicts[c]
KeepServer(c) ==
    LET conf == pendingConflicts[c]
        idx == findIndex(heap, quotes, conf.id)
        h == IF idx > 0
             THEN [heap EXCEPT ![quotes[idx]] =
                      [@ EXCEPT !.text = conf.server.text,
                                !.category = conf.server.category,
                                !.lastModified = conf.server.lastModified,
                                !.pendingSync = FALSE]]
             ELSE heap
    IN /\ SetRefs(quotes, h, pass, addTasks, keepTasks)
       /\ localStorage' = IF idx > 0 THEN saveQuotesToLocalStorage(h, quotes)
                          ELSE localStorage
       /\ pendingConflicts' = withoutConflict(pendingConflicts, conf.id)
       /\ UNCHANGED config
       /\ last' = [op |-> "keepServer", id |-> conf.id, before |-> Records,
                   registry |-> pendingConflicts]
       /\ lastSync' = NoSync
       /\ resolves < MaxResolves
       /\ Spent < MaxEvents
       /\ resolves' = resolves + 1
       /\ UNCHANGED <<store, quoteDisplay, clock, uidCount, imports, overlaps>>

\* resolveAllServerBtn.onclick
AcceptAllServer ==
    /\ Len(pendingConflicts) > 0
    /\ resolves < MaxResolves
    /\ Spent < MaxEvents
    /\ resolves' = resolves + 1
    /\ pendingConflicts' = <<>>
    /\ UNCHANGED config
    /\ last' = NoEvent
    /\ UNCHANGED <<quotes, heap, localStorage, store, pass, addTasks, keepTasks,
                   quoteDisplay, clock, uidCount, imports, overlaps, lastSync>>

\* keepLocalBtn.onclick of the block of pendingConflicts[c], up to its await:
\* the local quote is re-stamped and posted
KeepLocal(c) ==
    LET conf == pendingConflicts[c]
        idx == findIndex(heap, quotes, conf.id)
    IN IF idx > 0
       THEN /\ InFlight < MaxTasks
            /\ SetRefs(quotes, [heap EXCEPT ![quotes[idx]].lastModified = nowISO],
                       pass, addTasks,
                       Append(keepTasks, [kind |-> "one", ref |-> quotes[idx], id |-> conf.id,
                                          rest |-> <<>>, failed |-> <<>>]))
            /\ UNCHANGED config
            /\ last' = NoEvent
            /\ lastSync' = NoSync
            /\ resolves < MaxResolves
            /\ Spent < MaxEvents
            /\ resolves' = resolves + 1
            /\ UNCHANGED <<localStorage, pendingConflicts, store, quoteDisplay, clock,
                           uidCount, imports, overlaps>>
       ELSE UNCHANGED vars

\* the rest of the handler of keepTasks[t] once postQuoteToServer(localQ) has
\* returned ok; st is the simulated store the post leaves, http tells whether
\* the POST itself was answered 2xx
AfterKeepLocalPost(t, st, http) ==
    LET h == [heap EXCEPT ![keepTasks[t].ref].pendingSync = FALSE]
    IN /\ SetRefs(quotes, h, pass, addTasks,
                  SubSeq(keepTasks, 1, t - 1) \o SubSeq(keepTasks, t + 1, Len(keepTasks)))
       /\ localStorage' = saveQuotesToLocalStorage(h, quotes)
       /\ pendingConflicts' = withoutConflict(pendingConflicts, keepTasks[t].id)
       /\ store' = st
       /\ UNCHANGED config
       /\ last' = [op |-> "keepLocal", id |-> keepTasks[t].id, http |-> http,
                   record |-> h[keepTasks[t].ref], registry |-> pendingConflicts]
       /\ lastSync' = NoSync
       /\ UNCHANGED <<quoteDisplay, clock, uidCount, imports, resolves, overlaps>>

\* the POST of the local quote answers 2xx
KeepLocalPostOk ==
    \E t \in 1..Len(keepTasks) :
        keepTasks[t].kind = "one" /\ AfterKeepLocalPost(t, store, TRUE)

\* the POST fails and simulatedServer.postQuote(localQ) returns
KeepLocalPostViaSim ==
    \E t \in 1..Len(keepTasks) :
        /\ keepTasks[t].kind = "one"
        /\ AfterKeepLocalPost(t, postQuote(store, heap[keepTasks[t].ref]), FALSE)

\* the loop of resolveAllLocalBtn.onclick over the ids of the conflicts left:
\* the first one `quotes` holds a quote for (idx 0 when there is none)
RECURSIVE nextLocal(_, _, _)
nextLocal(h, q, ids) ==
    IF Len(ids) = 0 THEN [idx |-> 0, id |-> "", rest |-> <<>>]
    ELSE LET idx == findIndex(h, q, Head(ids))
         IN IF idx > 0 THEN [idx |-> idx, id |-> Head(ids), rest |-> Tail(ids)]
            ELSE nextLocal(h, q, Tail(ids))

\* resolveAllLocalBtn.onclick from the conflicts `ids` on: st is the simulated
\* store, kt the other click handlers in flight, failed the ids whose POST
\* failed so far.  The next local quote is re-stamped and posted; after the
\* last one the list of conflicts is emptied and `quotes` saved.
ForceAllFrom(ids, st, kt, failed) ==
    LET n == nextLocal(heap, quotes, ids)
    IN /\ IF n.idx > 0
          THEN /\ SetRefs(quotes,
                          [heap EXCEPT ![quotes[n.idx]].lastModified = nowISO],
                          pass, addTasks,
                          Append(kt, [kind |-> "all", ref |-> quotes[n.idx],
                                      id |-> n.id, rest |-> n.rest,
                                      failed |-> failed]))
               /\ last' = NoEvent
               /\ UNCHANGED <<localStorage, pendingConflicts>>
          ELSE /\ SetRefs(quotes, heap, pass, addTasks, kt)
               /\ pendingConflicts' = <<>>
               /\ localStorage' = saveQuotesToLocalStorage(heap, quotes)
               /\ last' = [op |-> "forceAll", failed |-> failed,
                           registry |-> pendingConflicts]
       /\ store' = st
       /\ lastSync' = NoSync
       /\ UNCHANGED <<config, quoteDisplay, clock, uidCount, imports, overlaps>>

\* resolveAllLocalBtn.onclick, up to its first await
ForceAllLocal ==
    /\ Len(pendingConflicts) > 0
    /\ resolves < MaxResolves
    /\ Spent < MaxEvents
    /\ InFlight < MaxTasks
    /\ resolves' = resolves + 1
    /\ ForceAllFrom([i \in 1..Len(pendingConflicts) |-> pendingConflicts[i].id],
                    store, keepTasks, <<>>)

\* the handler of keepTasks[t] without its own entry
OtherTasks(t) ==
    SubSeq(keepTasks, 1, t - 1) \o SubSeq(keepTasks, t + 1, Len(keepTasks))

\* the POST of a quote of the "Force Local" loop answers 2xx
ForceAllPostOk ==
    \E t \in 1..Len(keepTasks) :
        /\ keepTasks[t].kind = "all"
        /\ UNCHANGED resolves
        /\ ForceAllFrom(keepTasks[t].rest, store, OtherTasks(t), keepTasks[t].failed)

\* the POST fails and simulatedServer.postQuote(localQ) returns; the handler
\* does not look at the result
ForceAllPostViaSim ==
    \E t \in 1..Len(keepTasks) :
        /\ keepTasks[t].kind = "all"
        /\ UNCHANGED resolves
        /\ ForceAllFrom(keepTasks[t].rest, postQuote(store, heap[keepTasks[t].ref]),
                        OtherTasks(t), Append(keepTasks[t].failed, keepTasks[t].id))

----------------------------------------------------------------------------
\* Import of a JSON file.

Raw(id, text, category, lastModified) ==
    [id |-> id, text |-> text, category |-> category, lastModified |-> lastModified]

\* the files the user may pick: text that is not JSON (or an array holding
\* null, on which the map throws), a JSON object, JSON arrays of objects
ImportPayloads ==
    { [kind |-> "garbage", value |-> <<>>],
      [kind |-> "object", value |-> <<>>],
      [kind |-> "array",
       value |-> << Raw("#1", "Z", "M", Missing), Raw("#1", "X", "", BadDate) >>] }

\* a variant of isArray that takes any JSON object for an array (typeof
\* importedQuotes === "object")
isArrayOrObject(payload) == payload.kind \in {"array", "object"}

\* Array.isArray(importedQuotes)
isArray(payload) == payload.kind = "array"

\* a variant of normalizeImport that keeps an empty category
normalizeImportAsIs(s, count) ==
    [i \in 1..Len(s) |->
        Quote(IF s[i].id = "" THEN uid(count, MissingIds(s, i)) ELSE s[i].id,
              Or(s[i].text, ""),
              s[i].category,
              OrNow(s[i].lastModified),
              FALSE)]

\* importedQuotes.map(q => ({id: q.id || uid(), text: q.text || "", category:
\* q.category || "Uncategorized", lastModified: q.lastModified || nowISO(),
\* pendingSync: false}))
normalizeImport(s, count) ==
    [i \in 1..Len(s) |->
        Quote(IF s[i].id = "" THEN uid(count, MissingIds(s, i)) ELSE s[i].id,
              Or(s[i].text, ""),
              Or(s[i].category, "Uncategorized"),
              OrNow(s[i].lastModified),
              FALSE)]

\* reader.onload of the import input
Import ==
    \E payload \in ImportPayloads :
        /\ imports < MaxImports
        /\ Spent < MaxEvents
        /\ imports' = imports + 1
        /\ UNCHANGED resolves
        /\ UNCHANGED config
        /\ last' = [op |-> "import", kind |-> payload.kind, value |-> payload.value,
                    before |-> Records, stored |-> localStorage]
        /\ IF payload.kind = "garbage"
           THEN /\ quoteDisplay' = "readError"
                /\ UNCHANGED <<quotes, heap, localStorage, pendingConflicts, store,
                               pass, addTasks, keepTasks, clock, uidCount, overlaps, lastSync>>
           ELSE IF isArray(payload)
           THEN LET n == Len(payload.value)
                    used == MissingIds(payload.value, n)
                    normalized == normalizeImport(payload.value, uidCount)
                    base == Len(heap)
                IN /\ uidCount + used <= MaxUid
                   /\ SetRefs([i \in 1..n |-> base + i], heap \o normalized, pass,
                              addTasks, keepTasks)
                   /\ uidCount' = uidCount + used
                   /\ localStorage' = normalized
                   /\ quoteDisplay' = "imported"
                   /\ lastSync' = NoSync
                   /\ UNCHANGED <<pendingConflicts, store, clock, overlaps>>
           ELSE /\ quoteDisplay' = "invalidFormat"
                /\ UNCHANGED <<quotes, heap, localStorage, pendingConflicts, store,
                               pass, addTasks, keepTasks, clock, uidCount, overlaps, lastSync>>

Next ==
    \/ \E p \in Passes : SyncStart(p)
    \/ \E p \in Passes : FetchOk(p)
    \/ \E p \in Passes : FetchFail(p)
    \/ \E p \in Passes : SimFetchDone(p)
    \/ \E p \in Passes : PostOk(p)
    \/ \E p \in Passes : PostViaSim(p)
    \/ Submit
    \/ AddPostOk
    \/ AddPostViaSim
    \/ \E c \in 1..Len(pendingConflicts) : KeepServer(c)
    \/ AcceptAllServer
    \/ \E c \in 1..Len(pendingConflicts) : KeepLocal(c)
    \/ KeepLocalPostOk
    \/ KeepLocalPostViaSim
    \/ ForceAllLocal
    \/ ForceAllPostOk
    \/ ForceAllPostViaSim
    \/ Import

Spec == Init /\ [][Next]_vars

SpecLocalWins == InitLocalWins /\ [][Next]_vars

\* The script while the remote answers every request: each fetch and each
\* POST is answered 2xx, the interval keeps firing and every request gets its
\* answer.  The user may still add a quote.
NextOnline ==
    \/ \E p \in Passes : SyncStart(p)
    \/ \E p \in Passes : FetchOk(p)
    \/ \E p \in Passes : PostOk(p)
    \/ Submit
    \/ AddPostOk

\* The interval fires again and again (setInterval).  A request that is
\* outstanding stays so until its answer comes, so that every request gets
\* its answer exactly when every pass is idle again and again and the add
\* form is not left waiting for ever.
SpecOnline ==
    /\ Init
    /\ [][NextOnline]_vars
    /\ WF_vars(\E p \in Passes : SyncStart(p))
    /\ \A p \in Passes : []<>(pass[p].pc = "idle")
    /\ []<>(addTasks = <<>>)

----------------------------------------------------------------------------
\* The earlier revision of the script, src/unnamed/part_001.  Its quotes are
\* {id, text, category} with numeric ids; it has no simulated server, no
\* pendingSync and no conflict list.  The same variables hold its state:
\* `quotes` and `heap` its list, `pass` its invocations of syncQuotes,
\* quoteDisplay the notification it shows.

QuoteV1(id, text, category) == [id |-> id, text |-> text, category |-> category]

\* the three default quotes of its loadQuotesFromLocalStorage
defaultQuotesV1 ==
    << QuoteV1("#1", "The best way", "Motivation"),
       QuoteV1("#2", "In the middle", "Inspiration"),
       QuoteV1("#3", "Strive not", "Wisdom") >>

\* what GET .../posts?_limit=5 may answer: arrays of {id, title}
RemoteResponsesV1 ==
    { << [id |-> "#1", title |-> "T"], [id |-> "#4", title |-> "T"] >>,
      << >> }

\* fetchQuotesFromServer, fetch succeeded: data.map(item => ({id: item.id,
\* text: item.title, category: "Server"}))
fetchQuotesFromServer(data) ==
    [i \in 1..Len(data) |-> QuoteV1(data[i].id, data[i].title, "Server")]

\* serverQuotes.forEach of syncQuotes: the first quote of merged with the
\* server quote's id is replaced, a server quote with a new id is pushed
RECURSIVE mergeV1(_, _)
mergeV1(merged, serverQuotes) ==
    IF Len(serverQuotes) = 0 THEN merged
    ELSE LET serverQuote == Head(serverQuotes)
             found == {i \in 1..Len(merged) : merged[i].id = serverQuote.id}
             index == CHOOSE i \in found : \A j \in found : i <= j
         IN mergeV1(IF found # {} THEN [merged EXCEPT ![index] = serverQuote]
                    ELSE Append(merged, serverQuote),
                    Tail(serverQuotes))

\* quotes = list; saveQuotesToLocalStorage()
StoreV1(list) ==
    /\ quotes' = [i \in 1..Len(list) |-> i]
    /\ heap' = list
    /\ localStorage' = list

\* init: load the defaults, startPeriodicSync calls syncQuotes()
InitV1 ==
    /\ config = [SERVER_WINS_BY_DEFAULT |-> TRUE]
    /\ quotes = [i \in 1..Len(defaultQuotesV1) |-> i]
    /\ heap = defaultQuotesV1
    /\ localStorage = defaultQuotesV1
    /\ pass = [p \in Passes |-> IF p = 1 THEN [IdlePass EXCEPT !.pc = "fetch", !.via = "http"]
                                           ELSE IdlePass]
    /\ quoteDisplay = "quote"
    /\ pendingConflicts = <<>>
    /\ store = <<>>
    /\ addTasks = <<>>
    /\ keepTasks = <<>>
    /\ clock = 1
    /\ uidCount = 0
    /\ imports = 0
    /\ resolves = 0
    /\ overlaps = 0
    /\ lastSync = NoSync
    /\ last = NoEvent

\* the interval of startPeriodicSync fires, or "Sync Now" is clicked:
\* syncQuotes sends its fetch
startPeriodicSync(p) ==
    /\ pass[p].pc = "idle"
    /\ \A r \in Passes : pass[r].pc = "idle" => r >= p
    /\ pass' = [pass EXCEPT ![p] = [IdlePass EXCEPT !.pc = "fetch", !.via = "http"]]
    /\ UNCHANGED config
    /\ last' = NoEvent
    /\ UNCHANGED <<quotes, heap, localStorage, pendingConflicts, store, addTasks, keepTasks,
                   quoteDisplay, clock, uidCount, imports, resolves, overlaps, lastSync>>

\* syncQuotes once fetchQuotesFromServer has returned a list
syncQuotes(p) ==
    /\ pass[p].pc = "fetch"
    /\ \E data \in RemoteResponsesV1 :
          LET serverQuotes == fetchQuotesFromServer(data)
          IN IF Len(serverQuotes) = 0
             THEN /\ quoteDisplay' = "noData"
                  /\ UNCHANGED config
                  /\ last' = NoEvent
                  /\ UNCHANGED <<quotes, heap, localStorage>>
             ELSE /\ StoreV1(mergeV1(Records, serverQuotes))
                  /\ quoteDisplay' = "synced"
                  /\ UNCHANGED config
                  /\ last' = [op |-> "syncQuotes", before |-> Records,
                              serverQuotes |-> serverQuotes]
    /\ pass' = [pass EXCEPT ![p] = IdlePass]
    /\ UNCHANGED <<pendingConflicts, store, addTasks, keepTasks, clock, uidCount, imports, resolves,
                   overlaps, lastSync>>

\* syncQuotes once the fetch has failed: fetchQuotesFromServer returns []
syncQuotesFetchFailed(p) ==
    /\ pass[p].pc = "fetch"
    /\ pass' = [pass EXCEPT ![p] = IdlePass]
    /\ quoteDisplay' = "noData"
    /\ UNCHANGED config
    /\ last' = NoEvent
    /\ UNCHANGED <<quotes, heap, localStorage, pendingConflicts, store, addTasks, keepTasks,
                   clock, uidCount, imports, resolves, overlaps, lastSync>>

\* reader.onload of importQuotes: quotes = [...quotes, ...importedQuotes]
importQuotes ==
    \E payload \in ImportPayloads :
        /\ imports < MaxImports
        /\ imports' = imports + 1
        /\ UNCHANGED resolves
        /\ UNCHANGED config
        /\ last' = NoEvent
        /\ IF payload.kind = "garbage"
           THEN /\ quoteDisplay' = "importFailed"
                /\ UNCHANGED <<quotes, heap, localStorage>>
           ELSE IF isArray(payload)
           THEN /\ StoreV1(Records \o payload.value)
                /\ quoteDisplay' = "imported"
           ELSE /\ quoteDisplay' = "invalidFormat"
                /\ UNCHANGED <<quotes, heap, localStorage>>
        /\ UNCHANGED <<pendingConflicts, store, pass, addTasks, keepTasks, clock, uidCount,
                       overlaps, lastSync>>

\* the submit handler of createAddQuoteForm: the new quote gets the id
\* Date.now(), taken as fresh; simulatePostToServer changes no state
addQuoteV1 ==
    \E text \in AddTexts, category \in AddCategories :
        /\ text # "" /\ category # ""
        /\ uidCount < MaxUid
        /\ uidCount' = uidCount + 1
        /\ StoreV1(Append(Records, QuoteV1(uid(uidCount, 1), text, category)))
        /\ quoteDisplay' = "added"
        /\ UNCHANGED config
        /\ last' = NoEvent
        /\ UNCHANGED <<pendingConflicts, store, pass, addTasks, keepTasks, clock, imports, resolves,
                       overlaps, lastSync>>

NextV1 ==
    \/ \E p \in Passes : startPeriodicSync(p)
    \/ \E p \in Passes : syncQuotes(p)
    \/ \E p \in Passes : syncQuotesFetchFailed(p)
    \/ importQuotes
    \/ addQuoteV1

SpecV1 == InitV1 /\ [][NextV1]_vars

----------------------------------------------------------------------------
\* Properties of a pass of syncWithServer.  `last` describes the pass that
\* has just committed: the list fetched (serverQuotes), the records of
\* `quotes` when the merge ran (before), the conflicts found, the quotes
\* posted; Records is the list the commit stored.

\* the ids of a list, as the Maps of the merge key them
Keys(records) == {String(records[i].id) : i \in 1..Len(records)}

\* the record a list holds for a key: the last one, as new Map(list) keeps
Holds(records, k) ==
    records[CHOOSE i \in 1..Len(records) :
                /\ String(records[i].id) = k
                /\ \A j \in (i + 1)..Len(records) : String(records[j].id) # k]

HasConflict(conflicts, k) == \E i \in 1..Len(conflicts) : conflicts[i].id = k

\* the ids on both sides whose lastModified values differ and whose texts differ
ConflictKeys(ev) ==
    {k \in Keys(ev.before) \cap Keys(ev.serverQuotes) :
        /\ Holds(ev.before, k).lastModified # Holds(ev.serverQuotes, k).lastModified
        /\ Holds(ev.before, k).text # Holds(ev.serverQuotes, k).text}

\* the ids on both sides whose lastModified values are equal or whose texts are
NoConflictKeys(ev) ==
    {k \in Keys(ev.before) \cap Keys(ev.serverQuotes) :
        \/ Holds(ev.before, k).lastModified = Holds(ev.serverQuotes, k).lastModified
        \/ Holds(ev.before, k).text = Holds(ev.serverQuotes, k).text}

\* the ids of the fetched list that `quotes` did not hold when the merge ran
NewKeys(ev) == Keys(ev.serverQuotes) \ Keys(ev.before)

\* C2: the list a pass (of syncWithServer, or of syncQuotes in the earlier
\* revision) has just stored holds no two records with the same id.
C2_NoDuplicateIds ==
    last.op \in {"sync", "syncQuotes"} =>
        \A i, j \in 1..Len(Records) : Records[i].id = Records[j].id => i = j

\* C1: under SERVER_WINS_BY_DEFAULT, a pass that has just committed has a
\* conflict entry for every id held on both sides with different lastModified
\* and different text, and `quotes` holds for that id a record with the
\* server's text and lastModified and pendingSync false.
C1_ConflictDetection ==
    last.op = "sync" =>
        \A k \in ConflictKeys(last) :
            /\ HasConflict(last.conflicts, k)
            /\ \E i \in 1..Len(Records) :
                  /\ String(Records[i].id) = k
                  /\ Records[i].text = Holds(last.serverQuotes, k).text
                  /\ Records[i].lastModified = Holds(last.serverQuotes, k).lastModified
                  /\ Records[i].pendingSync = FALSE

\* a pass has just committed that met such an id
C1_Witness == last.op = "sync" /\ ConflictKeys(last) # {}

\* C3: after a pass has committed, every id of the fetched list that `quotes`
\* did not hold when the merge ran is in `quotes` with pendingSync false, and
\* the pass posted no quote with that id.
C3_NewRemoteRecordAdded ==
    last.op = "sync" =>
        \A k \in NewKeys(last) :
            /\ \E i \in 1..Len(Records) : String(Records[i].id) = k
            /\ \A i \in 1..Len(Records) :
                  String(Records[i].id) = k => Records[i].pendingSync = FALSE
            /\ \A i \in 1..Len(last.posted) : String(last.posted[i].id) # k

\* a pass has just committed that fetched an id `quotes` did not hold, while
\* it posted other quotes
C3_Witness == last.op = "sync" /\ NewKeys(last) # {} /\ last.posted # <<>>

\* C4: when the POST of a quote whose id the fetched list lacks fails during
\* a pass, the pass commits with that quote in `quotes`, pendingSync true, and
\* neither `quotes` nor the simulated store holds two records with its id.
\* (The claim's second pass follows from pendingSync staying true.)
C4_PushRetry ==
    (last.op = "sync" /\ last.failedId # ""
         /\ String(last.failedId) \notin Keys(last.serverQuotes)) =>
        /\ \E i \in 1..Len(Records) :
              Records[i].id = last.failedId /\ Records[i].pendingSync = TRUE
        /\ Cardinality({i \in 1..Len(Records) : Records[i].id = last.failedId}) <= 1
        /\ Cardinality({i \in 1..Len(store) : store[i].id = last.failedId}) <= 1

\* the lastModified of each record of a list, with its id
Stamps(records) ==
    [i \in 1..Len(records) |-> <<records[i].id, records[i].lastModified>>]

\* the pass that has just committed came right after another one: it fetched
\* the same list, no local edit happened in between, and it merged into the
\* records the first pass had stored
SecondInARow ==
    /\ last.op = "sync"
    /\ last.previous.op = "sync"
    /\ last.previous.serverQuotes = last.serverQuotes
    /\ last.previous.after = last.before

\* C5: the second of two passes in a row over the same fetched list finds no
\* conflict, leaves pendingConflicts as it was, and leaves every record with
\* the lastModified it had after the first pass.
C5_Idempotence ==
    SecondInARow =>
        /\ last.conflicts = <<>>
        /\ pendingConflicts = last.registry
        /\ Stamps(Records) = Stamps(last.previous.after)

\* a second pass in a row has just committed, the first having left conflicts
C5_Witness == SecondInARow /\ pendingConflicts # <<>>

\* C6: a pass whose fetch failed posts nothing and, if it commits at all,
\* leaves `quotes`, pendingConflicts and localStorage as they were.
C6_FetchFailureAborts ==
    /\ \A p \in Passes : pass[p].via = "sim" => pass[p].pc # "post"
    /\ (last.op = "sync" /\ last.via = "sim") =>
          /\ last.posted = <<>>
          /\ Records = last.before
          /\ pendingConflicts = last.registry
          /\ localStorage = last.stored

\* C7: right after the import of a JSON value that is not an array, `quotes`
\* and localStorage are what they were and the page shows the invalid-format
\* message.
C7_ImportRejected ==
    (last.op = "import" /\ last.kind = "object") =>
        /\ Records = last.before
        /\ localStorage = last.stored
        /\ quoteDisplay = "invalidFormat"

\* a JSON object has just been imported while `quotes` held records
C7_Witness == last.op = "import" /\ last.kind = "object" /\ Records # <<>>

\* C8: after a pass has committed, an id held on both sides with equal
\* lastModified or identical text has no conflict entry, and `quotes` holds
\* for it exactly the record it held when the merge ran.
C8_NoConflictRule ==
    last.op = "sync" =>
        \A k \in NoConflictKeys(last) :
            /\ ~HasConflict(last.conflicts, k)
            /\ \E i \in 1..Len(Records) : Records[i] = Holds(last.before, k)

\* C9: at most one invocation of syncWithServer is in flight.
C9_SinglePassInFlight ==
    Cardinality({p \in Passes : pass[p].pc # "idle"}) <= 1

\* C10: a step of a pass that is not its commit (the pass is in flight
\* before and after it) leaves the records of `quotes` as they were.
C10_AtomicCommit ==
    [][\A p \in Passes :
          (pass[p].pc # "idle" /\ pass'[p].pc # "idle" /\ pass'[p].idx # pass[p].idx)
              => Deref(heap', quotes') = Deref(heap, quotes)]_vars

\* C11: in every reachable state no two records of the record store share
\* an id
C11_NoSharedIds ==
    \A i, j \in 1..Len(Records) :
        Records[i].id = Records[j].id => i = j

\* C12: a locally created record keeps pendingSync = true until a push of
\* it to the remote source succeeds: when the POST of a new quote was not
\* answered 2xx, the record is still pending after the submit handler ends
C12_PendingUntilPushed ==
    (last.op = "addPost" /\ ~last.http) =>
        \A i \in 1..Len(Records) :
            Records[i].id = last.id => Records[i].pendingSync

\* C13: when the POST of a "Keep Local" click fails, the conflict entry of
\* that id stays in the list
C13_KeepLocalPushFailed ==
    (last.op = "keepLocal" /\ ~last.http) => HasConflict(pendingConflicts, last.id)

\* C14: an "Accept Server" click removes the conflict entry of its id and
\* changes nothing else: the records are the ones before the click and the
\* other entries of the list are kept
C14_AcceptServerFrame ==
    last.op = "keepServer" =>
        /\ Records = last.before
        /\ pendingConflicts = SelectSeq(last.registry, LAMBDA pc : pc.id # last.id)

\* C15: a conflict entry that is in the list when a pass commits, for an id
\* the pass found no conflict for, is not in the list after the pass
C15_ConflictEntryLifecycle ==
    last.op = "sync" =>
        \A i \in 1..Len(last.registry) :
            ~HasConflict(last.conflicts, last.registry[i].id)
                => ~HasConflict(pendingConflicts, last.registry[i].id)

\* C16: with the policy set to local wins, a pass that has just committed
\* has left every record it found in conflict as it was when the pass
\* compared it (text, category, lastModified, pendingSync), and the conflict
\* list holds an entry for its id
C16_LocalWinsKeepsLocal ==
    (last.op = "sync" /\ ~SERVER_WINS_BY_DEFAULT) =>
        \A i \in 1..Len(last.conflicts) :
            LET k == last.conflicts[i].id
            IN /\ HasConflict(pendingConflicts, k)
               /\ k \in Keys(Records)
               /\ Holds(Records, k) = last.conflicts[i].local

\* C17: whenever the handlers are idle or waiting for the remote side, every
\* record of the record store with pendingSync = false is persisted with
\* pendingSync = false (the persisted list read as a reload would read it)
C17_PersistedConfirmed ==
    LET persisted == normalizeStored(localStorage)
    IN \A i \in 1..Len(Records) :
          ~Records[i].pendingSync =>
              \E j \in 1..Len(persisted) :
                  /\ String(persisted[j].id) = String(Records[i].id)
                  /\ ~persisted[j].pendingSync

\* a record with the five fields of a quote, none of them missing
Canonical(q) ==
    /\ DOMAIN q = {"id", "text", "category", "lastModified", "pendingSync"}
    /\ q.id # ""
    /\ q.category # ""
    /\ q.lastModified # Missing
    /\ q.pendingSync \in BOOLEAN

\* q is the raw object with its missing fields filled in: the fields raw has
\* are kept, a missing category is "Uncategorized", a missing pendingSync false
FilledIn(raw, q) ==
    /\ Canonical(q)
    /\ raw.id # "" => q.id = raw.id
    /\ q.text = raw.text
    /\ q.category = (IF raw.category = "" THEN "Uncategorized" ELSE raw.category)
    /\ raw.lastModified # Missing => q.lastModified = raw.lastModified
    /\ q.pendingSync = (IF "pendingSync" \in DOMAIN raw THEN raw.pendingSync ELSE FALSE)

C19_AddedCount ==
    last.op = "sync" =>
        /\ last.notice.kind = "synced" =>
              last.notice.count = Cardinality(NewKeys(last))
        /\ (last.before = <<>> /\ Cardinality(Keys(last.serverQuotes)) = 2) =>
              /\ last.notice = [kind |-> "synced", count |-> 2]
              /\ Keys(Records) = Keys(last.serverQuotes)

\* a pass has just committed that merged two fetched quotes into an empty list
C19_Witness ==
    /\ last.op = "sync"
    /\ last.before = <<>>
    /\ Cardinality(Keys(last.serverQuotes)) = 2
    /\ last.notice.count = 2

\* C20: a quote whose POST failed during a pass ends the pass with
\* pendingSync = true: of the quotes the pass has posted, the one whose POST
\* failed last is still pending when the pass commits
C20_FailedPushStaysPending ==
    (last.op = "sync" /\ last.failedId # "") =>
        \A i \in 1..Len(last.posted) :
            last.posted[i].id = last.failedId => last.posted[i].pendingSync = TRUE

\* C21: a pass that has just committed has posted every quote `quotes` held
\* when the pass merged and whose id the fetched list lacks, whether the
\* quote was pending or not
C21_LocalOnlyPushed ==
    last.op = "sync" =>
        \A i \in 1..Len(last.before) :
            String(last.before[i].id) \notin Keys(last.serverQuotes) =>
                \E j \in 1..Len(last.posted) :
                    String(last.posted[j].id) = String(last.before[i].id)

\* a pass has just committed that found a quote with pendingSync = false
\* whose id the fetched list lacks, and posted it
C21_Witness ==
    /\ last.op = "sync"
    /\ \E i \in 1..Len(last.before) :
          /\ String(last.before[i].id) \notin Keys(last.serverQuotes)
          /\ ~last.before[i].pendingSync
          /\ \E j \in 1..Len(last.posted) :
                String(last.posted[j].id) = String(last.before[i].id)

\* C22: the commit of a pass keeps every quote the add form has put into
\* `quotes` since the pass merged (an id of uid() that the pass's snapshot
\* lacks): the quote is in `quotes` and in the persisted list after the commit
C22_NoLostLocalAdd ==
    [][\A p \in Passes :
          (pass[p].pc # "idle" /\ pass'[p].pc = "idle") =>
              \A i \in 1..Len(quotes) :
                  LET id == heap[quotes[i]].id
                  IN (id \in Range(UidNames) /\ id \notin Keys(pass[p].before)) =>
                        /\ \E j \in 1..Len(quotes') : heap'[quotes'[j]].id = id
                        /\ \E j \in 1..Len(localStorage') : localStorage'[j].id = id]_vars

\* C23: under SERVER_WINS_BY_DEFAULT, when the POST of a "Keep Local" click
\* has been answered 2xx, the quote that was posted and stored has the text
\* and the category of the local snapshot of the conflict entry
C23_KeepLocalKeepsLocal ==
    (last.op = "keepLocal" /\ last.http /\ SERVER_WINS_BY_DEFAULT) =>
        \A i \in 1..Len(last.registry) :
            last.registry[i].id = last.id =>
                /\ last.record.text = last.registry[i].local.text
                /\ last.record.category = last.registry[i].local.category

\* C24: when the "Force Local" loop has ended, the conflict entry of every
\* quote whose POST failed is still in the list
C24_ForceLocalKeepsFailed ==
    last.op = "forceAll" =>
        \A i \in 1..Len(last.failed) : HasConflict(pendingConflicts, last.failed[i])

\* the ids of the quotes the remote collection answers a fetch with
RemoteKeys ==
    UNION {{String(data[i].id) : i \in 1..Len(data)} : data \in RemoteResponses}

\* every quote is confirmed and the remote collection holds its id
Converged ==
    \A i \in 1..Len(Records) :
        ~Records[i].pendingSync /\ String(Records[i].id) \in RemoteKeys

\* C25: while every fetch and every POST succeeds and the interval keeps
\* firing, the script reaches a state, and stays in it, where every quote
\* has pendingSync = false and its id is in the remote collection
C25_Convergence == <>[]Converged

\* C26: a pass that has just committed has posted no quote whose id is in
\* the list it fetched
C26_PushesOnlyLocalOnly ==
    last.op = "sync" =>
        \A j \in 1..Len(last.posted) :
            String(last.posted[j].id) \notin Keys(last.serverQuotes)

====
